---- MODULE Spec2Model ----
(***************************************************************************)
(* The file-operation and undo subsystem of the image triage application:  *)
(* FileOperation (undo), FileOperationManager (move_file, delete_file,     *)
(* undo_last_operation, _add_to_history) over a small filesystem.          *)
(*                                                                         *)
(* A path is a record [dir, name]; a name is a sequence of string tokens   *)
(* ("img", ".", "png") so that Path.stem / Path.suffix and the f-strings   *)
(* that build "stem-N.ext" and "stem_restored_N.ext" are computed, not     *)
(* assumed.  The filesystem maps each occupied path to the identity of the *)
(* file stored there.                                                      *)
(***************************************************************************)
EXTENDS Integers, Sequences, FiniteSets, TLC

\* ---- bounds of the model ------------------------------------------------
\* FileOperationManager(max_history): the constructor argument (default 20).
max_history == 2
\* Number of public calls of the manager in one run of Spec.
MaxCalls == 3
\* SpecBatch: number of move_file / delete_file calls, then of undo calls.
BatchOps == 3
BatchUndos == 3

\* ---- the universe of the model -------------------------------------------
Dirs == {"a", "b", "c"}
ImgName == <<"img", ".", "png">>
PicName == <<"pic", ".", "jpg">>
\* Optional[str]: <<>> is None, <<s>> is the string s; <<>> as s is "".
RenamePatterns == {<<>>, << <<>> >>, <<PicName>>}
NoPath == [dir |-> "", name |-> <<>>]
MOVE == "move"
DELETE == "delete"
NoOperation == [operation_type |-> "none", source_path |-> NoPath,
                destination_path |-> NoPath, id |-> 0]

\* ---- pathlib ------------------------------------------------------------
\* str.rfind("."), 1-based, 0 when there is no dot
RFindDot(name) ==
    LET I == {i \in 1..Len(name) : name[i] = "."}
    IN IF I = {} THEN 0 ELSE CHOOSE i \in I : \A j \in I : j <= i

\* PurePath.suffix
suffix(name) ==
    LET i == RFindDot(name)
    IN IF 1 < i /\ i < Len(name) THEN SubSeq(name, i, Len(name)) ELSE <<>>

\* PurePath.stem
stem(name) ==
    LET i == RFindDot(name)
    IN IF 1 < i /\ i < Len(name) THEN SubSeq(name, 1, i - 1) ELSE name

\* directory / name
Join(d, name) == [dir |-> d, name |-> name]

\* Path.exists() for a file path, on the filesystem F
exists(F, path) == path \in DOMAIN F

\* f"{base_name}-{counter}{extension}"
MoveName(base_name, counter, extension) ==
    base_name \o <<"-", ToString(counter)>> \o extension

\* f"{base_name}_restored_{counter}{extension}"
RestoreName(base_name, counter, extension) ==
    base_name \o <<"_restored_", ToString(counter)>> \o extension

\* (variant) the file is copied: it stays at src as well
shutil_move_copying(F, src, dst) ==
    [p \in DOMAIN F \cup {dst} |-> IF p = dst THEN F[src] ELSE F[p]]

\* shutil.move(src, dst) of a file onto a path: the file leaves src and
\* is at dst afterwards (a file already at dst is replaced).
shutil_move(F, src, dst) ==
    [p \in (DOMAIN F \ {src}) \cup {dst} |-> IF p = dst THEN F[src] ELSE F[p]]

\* send2trash(path): the file leaves the filesystem
send2trash(F, path) == [p \in DOMAIN F \ {path} |-> F[p]]

\* ---- FileOperationManager.move_file: collision-safe destination ----------
\* (variant) the counter is incremented before it is used: names start at 2
RECURSIVE move_while_preincrement(_, _, _, _, _, _)
move_while_preincrement(F, destination_dir, base_name, extension, destination, counter) ==
    IF exists(F, destination)
    THEN move_while_preincrement(F, destination_dir, base_name, extension,
                    Join(destination_dir, MoveName(base_name, counter + 1, extension)),
                    counter + 1)
    ELSE destination

\* the while loop of move_file: counter runs upward until the path is free
RECURSIVE move_while(_, _, _, _, _, _)
move_while(F, destination_dir, base_name, extension, destination, counter) ==
    IF exists(F, destination)
    THEN move_while(F, destination_dir, base_name, extension,
                    Join(destination_dir, MoveName(base_name, counter, extension)),
                    counter + 1)
    ELSE destination

\* rename_pattern if it is given and not empty, else the source's own name
move_candidate(source, destination_dir, rename_pattern) ==
    IF rename_pattern # <<>> /\ rename_pattern[1] # <<>>
    THEN Join(destination_dir, rename_pattern[1])
    ELSE Join(destination_dir, source.name)

\* (variant) no collision check: the candidate is used as it is
move_destination_unchecked(F, destination_dir, candidate) == candidate

\* (variant) the stem is taken again from each numbered name that is tried
RECURSIVE move_while_restem(_, _, _, _, _)
move_while_restem(F, destination_dir, extension, destination, counter) ==
    IF exists(F, destination)
    THEN move_while_restem(F, destination_dir, extension,
                    Join(destination_dir,
                         MoveName(stem(destination.name), counter, extension)),
                    counter + 1)
    ELSE destination

move_destination_restem(F, destination_dir, candidate) ==
    move_while_restem(F, destination_dir, suffix(candidate.name), candidate, 1)

\* if destination.exists(): ... while destination.exists(): ...
move_destination(F, destination_dir, candidate) ==
    IF exists(F, candidate)
    THEN move_while(F, destination_dir, stem(candidate.name),
                    suffix(candidate.name), candidate, 1)
    ELSE candidate

\* ---- FileOperation.undo --------------------------------------------------
\* (variant) the counter is incremented before it is used: names start at 2
RECURSIVE undo_while_preincrement(_, _, _, _, _, _)
undo_while_preincrement(F, source_path, base_name, extension, restore_path, counter) ==
    IF exists(F, restore_path)
    THEN undo_while_preincrement(F, source_path, base_name, extension,
                    Join(source_path.dir,
                         RestoreName(base_name, counter + 1, extension)),
                    counter + 1)
    ELSE restore_path

RECURSIVE undo_while(_, _, _, _, _, _)
undo_while(F, source_path, base_name, extension, restore_path, counter) ==
    IF exists(F, restore_path)
    THEN undo_while(F, source_path, base_name, extension,
                    Join(source_path.dir, RestoreName(base_name, counter, extension)),
                    counter + 1)
    ELSE restore_path

\* (variant) the file is restored onto the source path whatever is there
undo_restore_path_overwrite(F, source_path) == source_path

\* (variant) the file is always restored under a _restored_ name
undo_restore_path_renamed(F, source_path) ==
    undo_while(F, source_path, stem(source_path.name),
               suffix(source_path.name),
               Join(source_path.dir,
                    RestoreName(stem(source_path.name), 1,
                                suffix(source_path.name))), 2)

\* restore_path = self.source_path; if restore_path.exists(): ... while ...
undo_restore_path(F, source_path) ==
    IF exists(F, source_path)
    THEN undo_while(F, source_path, stem(source_path.name),
                    suffix(source_path.name), source_path, 1)
    ELSE source_path

\* (variant) the undo of a Delete reports success
FileOperation_undo_delete_true(operation, F, fault) ==
    IF operation.operation_type = MOVE /\ operation.destination_path # NoPath
    THEN LET restore_path == undo_restore_path(F, operation.source_path)
         IN IF fault \/ ~exists(F, operation.destination_path)
            THEN [ok |-> FALSE, raised |-> FALSE, fs |-> F,
                  restore_path |-> NoPath]
            ELSE [ok |-> TRUE, raised |-> FALSE,
                  fs |-> shutil_move(F, operation.destination_path, restore_path),
                  restore_path |-> restore_path]
    ELSE [ok |-> operation.operation_type = DELETE, raised |-> FALSE, fs |-> F,
          restore_path |-> NoPath]

\* (variant) no try / except around the restore: a filesystem error leaves
\* undo as an exception
FileOperation_undo_uncaught(operation, F, fault) ==
    IF operation.operation_type = MOVE /\ operation.destination_path # NoPath
    THEN LET restore_path == undo_restore_path(F, operation.source_path)
         IN IF fault \/ ~exists(F, operation.destination_path)
            THEN [ok |-> FALSE, raised |-> TRUE, fs |-> F,
                  restore_path |-> NoPath]
            ELSE [ok |-> TRUE, raised |-> FALSE,
                  fs |-> shutil_move(F, operation.destination_path, restore_path),
                  restore_path |-> restore_path]
    ELSE [ok |-> FALSE, raised |-> FALSE, fs |-> F, restore_path |-> NoPath]

\* FileOperation.undo on the filesystem F; fault = TRUE when a filesystem
\* call of the try block (restore_path.exists, shutil.move) raises.  The
\* result is the returned bool, whether an exception left undo (the try /
\* except Exception catches every one), the filesystem afterwards and the
\* path the file was restored to.
FileOperation_undo(operation, F, fault) ==
    IF operation.operation_type = MOVE /\ operation.destination_path # NoPath
    THEN LET restore_path == undo_restore_path(F, operation.source_path)
         IN IF fault \/ ~exists(F, operation.destination_path)
            THEN [ok |-> FALSE, raised |-> FALSE, fs |-> F,
                  restore_path |-> NoPath]
            ELSE [ok |-> TRUE, raised |-> FALSE,
                  fs |-> shutil_move(F, operation.destination_path, restore_path),
                  restore_path |-> restore_path]
    ELSE [ok |-> FALSE, raised |-> FALSE, fs |-> F, restore_path |-> NoPath]

\* ---- the FileOperation records the manager builds -------------------------
\* id stands for the identity of the object.
\* FileOperation(OperationType.MOVE, source, destination)
MoveOperation(source, destination, id) ==
    [operation_type |-> MOVE, source_path |-> source,
     destination_path |-> destination, id |-> id]

\* (variant) the deleted path is also passed as the destination
DeleteOperation_with_destination(file_path, id) ==
    [operation_type |-> DELETE, source_path |-> file_path,
     destination_path |-> file_path, id |-> id]

\* (variant) the record of a deletion is built with the kind MOVE
DeleteOperation_as_move(file_path, id) ==
    [operation_type |-> MOVE, source_path |-> file_path,
     destination_path |-> NoPath, id |-> id]

\* FileOperation(OperationType.DELETE, file_path)
DeleteOperation(file_path, id) ==
    [operation_type |-> DELETE, source_path |-> file_path,
     destination_path |-> NoPath, id |-> id]

\* ---- FileOperationManager: the history -----------------------------------
\* (variant) the append is not followed by a trim
add_to_history_untrimmed(h, operation) == Append(h, operation)

\* (variant) a full history drops the entry just appended: pop() for pop(0)
add_to_history_drop_newest(h, operation) ==
    LET appended == Append(h, operation)
    IN IF Len(appended) > max_history
       THEN SubSeq(appended, 1, max_history) ELSE appended

\* (variant) the new entry goes to the head: insert(0, operation) for append
add_to_history_at_head(h, operation) ==
    LET inserted == <<operation>> \o h
    IN IF Len(inserted) > max_history THEN Tail(inserted) ELSE inserted

\* self.history.append(operation); if len > max_history: self.history.pop(0)
_add_to_history(h, operation) ==
    LET appended == Append(h, operation)
    IN IF Len(appended) > max_history THEN Tail(appended) ELSE appended

\* (variant) undo takes the head entry: pop(0) for pop()
history_pop_item_head(h) == h[1]

\* (variant) undo reads the tail entry and leaves it in the history
history_pop_rest_peek(h) == h

\* the entry self.history.pop() returns, and the history it leaves
history_pop_item(h) == h[Len(h)]
history_pop_rest(h) == SubSeq(h, 1, Len(h) - 1)

\* ---- state ---------------------------------------------------------------
\* ---- ThumbnailCache: keys, metadata, eviction ----------------------------
max_size_bytes == 2

\* QSize(150, 150), the one size the image list asks for
thumbnail_size == "150x150"

NoKey == [path |-> NoPath, size |-> "", mtime |-> 0]

NoCacheCall == [op |-> "none", image_path |-> NoPath, cache_key |-> NoKey,
                result |-> NoKey, ok |-> FALSE, raised |-> FALSE,
                evicted |-> <<>>]

\* st_size of the PNG that pixmap.save writes for a thumbnail
st_size(cache_key) == IF cache_key.path.dir = "a" THEN 1 ELSE 3

NoFiles == [k \in {} |-> [size |-> 0, atime |-> 0]]
NoEntries == [k \in {} |-> [size |-> 0, last_access |-> 0]]

\* {"files": {}, "total_size": 0}
DefaultMetadata == [files |-> NoEntries, total_size |-> 0]

\* dict.pop(key) and unlink(path): the mapping without the key
pop(f, key) == [k \in DOMAIN f \ {key} |-> f[k]]

\* min(files.keys(), key = last_access)
oldest_key(files) ==
    CHOOSE k \in DOMAIN files :
        \A o \in DOMAIN files : files[k].last_access <= files[o].last_access

\* the while loop of _ensure_cache_size on the metadata M and the cache
\* files Files; evicted lists the keys popped so far
RECURSIVE ensure_while(_, _, _)
ensure_while(M, Files, evicted) ==
    IF M.total_size > max_size_bytes /\ DOMAIN M.files # {}
    THEN LET key == oldest_key(M.files)
             file_info == M.files[key]
         IN IF key \in DOMAIN Files
            THEN ensure_while([files |-> pop(M.files, key),
                               total_size |-> M.total_size - file_info.size],
                              pop(Files, key), Append(evicted, key))
            ELSE ensure_while([files |-> pop(M.files, key),
                               total_size |-> M.total_size],
                              Files, Append(evicted, key))
    ELSE [metadata |-> M, cache_files |-> Files, evicted |-> evicted]

\* the ThumbnailLoader before start(): runs counts the threads started
NoLoader == [pc |-> "idle", image_path |-> NoPath, pixmap |-> NoKey,
             emitted |-> FALSE, runs |-> 0, calls_at_start |-> 0]

\* the modification times a file may have: the one it has at the start and
\* the one another program gives it
FirstMtime == 1
Mtimes == {FirstMtime, FirstMtime + 1}

\* the reference manager before it is set beside the manager
\* an undo_stack entry of MainWindow (its 'row' is a list position and is
\* not kept); NoEntry: no entry was popped
NoEntry == [action |-> "none", source |-> NoPath, destination |-> NoPath]

\* MainWindow before any handler ran: op is the handler, operation the entry
\* undo_last_action popped, called whether it called undo_last_operation
NoWindowCall == [op |-> "none", n |-> 0, operation |-> NoEntry,
                 called |-> FALSE]

\* the ThumbnailLoader threads that run at the same time
Threads == {1, 2}

\* a ThumbnailLoader before start(): pc is its position in
\* generate_thumbnail, the other fields are the locals of get, put and
\* _ensure_cache_size; total_size is the value read for an augmented
\* assignment that is not yet stored
NoThread == [pc |-> "idle", image_path |-> NoPath, cache_key |-> NoKey,
             oldest_key |-> NoKey,
             file_info |-> [size |-> 0, last_access |-> 0],
             total_size |-> 0, raised |-> FALSE, ok |-> FALSE]

NoReference == [fs |-> <<>>, dirs |-> {}, trash |-> {}, history |-> <<>>,
                made |-> 0, popped |-> NoOperation, ahead |-> FALSE]

VARIABLES
    fs,        \* the files on disk: occupied path -> identity of the file
    dirs,      \* the directories that exist
    trash,     \* the files send2trash has taken
    history,   \* FileOperationManager.history
    last,      \* the last public call: its arguments, locals and result
    calls,     \* number of public calls made
    made,      \* number of FileOperation records created (the last one's id)
    undos,     \* number of undo_last_operation calls made
    all_true,  \* every undo_last_operation call so far returned True
    only_moves,\* every record created so far is a Move
    faulted,   \* a filesystem error has occurred in some call
    fs0,       \* the files on disk when the manager was constructed
    util,      \* the last call of get_images_from_folder / get_rename_pattern
    cache_files,   \* ThumbnailCache: the <key>.png files in cache_dir
    metadata,      \* ThumbnailCache.metadata
    metadata_file, \* the content of cache_dir / metadata.json
    now,           \* the clock; it ticks with every call on the cache
    cache_last,    \* the last call on the cache: arguments and result
    access_log,    \* per key, when get last returned it and put last wrote it
    loader,        \* the ThumbnailLoader thread: its position and locals
    st_mtime,      \* per file, its modification time when it is not the first
    moved_file,    \* per record id, the file its move_file call moved
    reference,     \* a manager without history bound, and its files
    undo_stack,    \* MainWindow.undo_stack
    window_last,   \* the last MainWindow handler run and what it popped
    threads,       \* per ThumbnailLoader thread: its position and locals
    expected_total \* total_size when no update of it were lost

manager_vars == <<fs, dirs, trash, history, last, calls, made, undos,
                  all_true, only_moves, faulted, fs0>>

\* what move_file, delete_file and undo_last_operation never touch
cache_vars == <<cache_files, metadata, metadata_file, now, cache_last,
                access_log>>
\* what is recorded beside the manager to state properties of its runs
ghost_vars == <<moved_file, reference>>
\* MainWindow: its own undo stack and what its last handler did
window_vars == <<undo_stack, window_last>>
\* two ThumbnailLoader threads on the shared cache
thread_vars == <<threads, expected_total>>
other_vars == <<util, cache_vars, loader, st_mtime, ghost_vars, window_vars, thread_vars>>

vars == <<manager_vars, other_vars>>

NoUtil == [op |-> "none", flavour |-> "", entries |-> {}, images |-> <<>>,
           original_name |-> <<>>, index |-> 0, new_name |-> <<>>]

NoCall == [op |-> "none", source |-> NoPath, destination_dir |-> "",
           candidate |-> NoPath, ok |-> FALSE, result |-> NoPath,
           raised |-> FALSE, fault |-> FALSE,
           last_operation |-> NoOperation,
           restore_path |-> NoPath,
           history_before |-> <<>>]

\* The folders hold images called img.png; the file at d/img.png is file d.
InitialFs(D) == [p \in {Join(d, ImgName) : d \in D} |-> p.dir]

Init ==
    /\ \E E \in {Dirs, Dirs \ {"c"}} :
          /\ dirs = E
          /\ fs = InitialFs(E)
          /\ fs0 = InitialFs(E)
    /\ trash = {}
    /\ history = <<>>
    /\ last = NoCall
    /\ calls = 0
    /\ made = 0
    /\ undos = 0
    /\ all_true = TRUE
    /\ only_moves = TRUE
    /\ faulted = FALSE
    /\ util = NoUtil
    /\ cache_files = NoFiles
    /\ metadata = DefaultMetadata
    /\ metadata_file = DefaultMetadata
    /\ now = 0
    /\ cache_last = NoCacheCall
    /\ access_log = [k \in {} |-> [get |-> 0, put |-> 0]]
    /\ loader = NoLoader
    /\ st_mtime = [f \in {} |-> FirstMtime]
    /\ moved_file = [i \in {} |-> ""]
    /\ reference = [NoReference EXCEPT !.fs = fs, !.dirs = dirs]
    /\ undo_stack = <<>>
    /\ window_last = NoWindowCall
    /\ threads = [t \in Threads |-> NoThread]
    /\ expected_total = 0

\* the paths a caller may name: every file on disk and the initial paths
CallPaths == DOMAIN fs \cup {Join(d, ImgName) : d \in Dirs}

\* ---- FileOperationManager.move_file --------------------------------------
\* (variant) the existence check is missing
move_source_unchecked(F, source) == FALSE

\* if not source.exists(): return None
move_source_missing(F, source) == ~exists(F, source)

\* fault: "none", "mkdir" (destination_dir.mkdir raises) or "move"
\* (shutil.move raises).
move_file(source, destination_dir, rename_pattern, fault) ==
    LET candidate == move_candidate(source, destination_dir, rename_pattern)
        destination == move_destination(fs, destination_dir, candidate)
        operation == MoveOperation(source, destination, made + 1)
        this == [NoCall EXCEPT !.op = "move_file", !.source = source,
                               !.destination_dir = destination_dir,
                               !.history_before = history]
    IN
    /\ calls' = calls + 1
    /\ UNCHANGED <<trash, undos, all_true, fs0>>
    /\ IF move_source_missing(fs, source)
       THEN /\ fault = "none"
            /\ last' = this
            /\ UNCHANGED <<fs, dirs, history, made, only_moves, faulted>>
       ELSE IF destination_dir \notin dirs /\ fault = "mkdir"
       THEN \* mkdir is outside the try block: the exception leaves move_file
            /\ last' = [this EXCEPT !.raised = TRUE, !.fault = TRUE]
            /\ faulted' = TRUE
            /\ UNCHANGED <<fs, dirs, history, made, only_moves>>
       ELSE IF fault = "move" \/ ~exists(fs, source)
       THEN \* shutil.move raises; except Exception: return None
            /\ fault # "mkdir"
            /\ dirs' = dirs \cup {destination_dir}
            /\ last' = [this EXCEPT !.candidate = candidate,
                                    !.fault = (fault = "move")]
            /\ faulted' = (faulted \/ fault = "move")
            /\ UNCHANGED <<fs, history, made, only_moves>>
       ELSE /\ fault = "none"
            /\ dirs' = dirs \cup {destination_dir}
            /\ fs' = shutil_move(fs, source, destination)
            /\ history' = _add_to_history(history, operation)
            /\ made' = made + 1
            /\ last' = [this EXCEPT !.candidate = candidate, !.ok = TRUE,
                                    !.result = destination]
            /\ UNCHANGED <<only_moves, faulted>>

\* ---- FileOperationManager.delete_file ------------------------------------
\* fault: TRUE when send2trash raises.
delete_file(file_path, fault) ==
    LET operation == DeleteOperation(file_path, made + 1)
        this == [NoCall EXCEPT !.op = "delete_file", !.source = file_path,
                               !.history_before = history]
    IN
    /\ calls' = calls + 1
    /\ UNCHANGED <<dirs, undos, all_true, fs0>>
    /\ IF ~exists(fs, file_path)
       THEN /\ ~fault
            /\ last' = this
            /\ UNCHANGED <<fs, trash, history, made, only_moves, faulted>>
       ELSE IF fault
       THEN /\ last' = [this EXCEPT !.fault = TRUE]
            /\ faulted' = TRUE
            /\ UNCHANGED <<fs, trash, history, made, only_moves>>
       ELSE /\ fs' = send2trash(fs, file_path)
            /\ trash' = trash \cup {fs[file_path]}
            /\ history' = _add_to_history(history, operation)
            /\ made' = made + 1
            /\ only_moves' = FALSE
            /\ last' = [this EXCEPT !.ok = TRUE]
            /\ UNCHANGED faulted

\* ---- FileOperationManager.undo_last_operation ----------------------------
\* fault: TRUE when the shutil.move of FileOperation.undo raises.
undo_last_operation(fault) ==
    LET this == [NoCall EXCEPT !.op = "undo_last_operation",
                               !.history_before = history]
    IN
    /\ calls' = calls + 1
    /\ undos' = undos + 1
    /\ UNCHANGED <<dirs, trash, made, only_moves, fs0>>
    /\ IF history = <<>>
       THEN \* if not self.history: return False
            /\ ~fault
            /\ last' = this
            /\ all_true' = FALSE
            /\ UNCHANGED <<fs, history, faulted>>
       ELSE LET last_operation == history_pop_item(history)
                r == FileOperation_undo(last_operation, fs, fault)
            IN /\ fault => last_operation.operation_type = MOVE
               /\ history' = history_pop_rest(history)
               /\ fs' = r.fs
               /\ faulted' = (faulted \/ fault)
               /\ all_true' = (all_true /\ r.ok)
               /\ last' = [this EXCEPT !.ok = r.ok, !.fault = fault,
                                       !.raised = r.raised,
                                       !.last_operation = last_operation,
                                       !.restore_path = r.restore_path]

\* ---- any interleaving of the three public calls -------------------------
Faults == {"none", "mkdir", "move"}

MoveCall ==
    /\ \E source \in CallPaths, destination_dir \in Dirs,
          rename_pattern \in RenamePatterns, fault \in Faults :
          move_file(source, destination_dir, rename_pattern, fault)
    /\ UNCHANGED other_vars

DeleteCall ==
    /\ \E file_path \in CallPaths, fault \in BOOLEAN :
          delete_file(file_path, fault)
    /\ UNCHANGED other_vars

UndoCall ==
    /\ \E fault \in BOOLEAN : undo_last_operation(fault)
    /\ UNCHANGED other_vars

Next ==
    \/ calls < MaxCalls /\ MoveCall
    \/ calls < MaxCalls /\ DeleteCall
    \/ calls < MaxCalls /\ UndoCall

Spec == Init /\ [][Next]_vars

\* ---- a batch of operations followed by a batch of undos ------------------
NextBatch ==
    \/ undos = 0 /\ calls < BatchOps /\ MoveCall
    \/ undos = 0 /\ calls < BatchOps /\ DeleteCall
    \/ undos < BatchUndos /\ UndoCall

SpecBatch == Init /\ [][NextBatch]_vars

\* ---- moves out of one folder, new files arriving there, undos ------------
RestoreCalls == 4

\* the files another program may put into the folders while this one runs
NewFiles == {"x", "y"}

\* a file arrives at a free path from outside the program
file_arrives(path) ==
    LET unused == NewFiles \ ({fs[p] : p \in DOMAIN fs} \cup trash)
    IN /\ path.dir \in dirs
       /\ ~exists(fs, path)
       /\ unused # {}
       /\ fs' = [p \in DOMAIN fs \cup {path} |->
                    IF p = path THEN CHOOSE f \in unused : TRUE ELSE fs[p]]
       /\ UNCHANGED <<dirs, trash, history, last, calls, made, undos,
                      all_true, only_moves, faulted, fs0>>
       /\ UNCHANGED other_vars

\* the user sorts a/img.png into another folder, keeping its name
RestoreMoveCall ==
    /\ \E destination_dir \in Dirs \ {"a"} :
          move_file(Join("a", ImgName), destination_dir, <<>>, "none")
    /\ UNCHANGED other_vars

NextRestore ==
    \/ calls < RestoreCalls /\ RestoreMoveCall
    \/ file_arrives(Join("a", ImgName))
    \/ calls < RestoreCalls /\ UndoCall

SpecRestore == Init /\ [][NextRestore]_vars

\* ---- get_rename_pattern and get_images_from_folder -----------------------
\* File names of a scanned folder are sequences of characters, so that the
\* order of sorted() can be computed.
UtilCalls == 1

\* the characters of the names below, in code point order
Alphabet == <<".", "B", "G", "J", "P",
              "a", "b", "c", "d", "e", "f", "g", "j", "n", "p", "t", "w", "x">>
ord(c) == CHOOSE i \in 1..Len(Alphabet) : Alphabet[i] = c
lower(c) == CASE c = "B" -> "b" [] c = "G" -> "g" [] c = "J" -> "j"
              [] c = "P" -> "p" [] OTHER -> c

\* os.path.normcase of the pathlib flavour, character by character
normcase(flavour, c) == IF flavour = "windows" THEN lower(c) ELSE c

\* PurePath.__lt__ for two paths of one folder: the case-normalised names
\* compare as strings
RECURSIVE PathLess(_, _, _)
PathLess(flavour, x, y) ==
    IF y = <<>> THEN FALSE
    ELSE IF x = <<>> THEN TRUE
    ELSE LET a == ord(normcase(flavour, Head(x)))
             b == ord(normcase(flavour, Head(y)))
         IN IF a # b THEN a < b ELSE PathLess(flavour, Tail(x), Tail(y))

\* sorted(folder_path.iterdir())
RECURSIVE sorted(_, _)
sorted(flavour, names) ==
    IF names = {} THEN <<>>
    ELSE LET first == CHOOSE m \in names :
                         \A o \in names : ~PathLess(flavour, o, m)
         IN <<first>> \o sorted(flavour, names \ {first})

supported_extensions ==
    { <<".", "p", "n", "g">>, <<".", "j", "p", "g">>,
      <<".", "j", "p", "e", "g">>, <<".", "w", "e", "b", "p">>,
      <<".", "P", "N", "G">>, <<".", "J", "P", "G">>,
      <<".", "J", "P", "E", "G">>, <<".", "W", "E", "B", "P">> }

\* the result of get_images_from_folder: entries are the directory entries
\* [name, is_file] of folder_path, is_dir tells whether folder_path exists
\* and is a directory
images_from_folder(flavour, is_dir, entries) ==
    LET IsImage(name) ==
            /\ \E e \in entries : e.name = name /\ e.is_file
            /\ suffix(name) \in supported_extensions
    IN IF ~is_dir THEN <<>>
       ELSE SelectSeq(sorted(flavour, {e.name : e \in entries}), IsImage)

\* the entries a scanned folder may hold; f.png is a sub-directory
a_png  == <<"a", ".", "p", "n", "g">>
B_JPG  == <<"B", ".", "J", "P", "G">>
c_txt  == <<"c", ".", "t", "x", "t">>
d_webp == <<"d", ".", "w", "e", "b", "p">>
e_Png  == <<"e", ".", "P", "n", "g">>
f_png  == <<"f", ".", "p", "n", "g">>
FolderEntries ==
    { [name |-> n, is_file |-> TRUE] : n \in {a_png, B_JPG, c_txt, d_webp, e_Png} }
    \cup { [name |-> f_png, is_file |-> FALSE] }

get_images_from_folder(flavour, is_dir, entries) ==
    /\ UNCHANGED <<cache_vars, loader, st_mtime, ghost_vars, window_vars, thread_vars>>
    /\ util' = [NoUtil EXCEPT !.op = "get_images_from_folder",
                              !.flavour = flavour, !.entries = entries,
                              !.images = images_from_folder(flavour, is_dir,
                                                            entries)]
    /\ UNCHANGED manager_vars

\* (variant) the index is appended after the suffix
rename_pattern_appended(original_name, index) ==
    original_name \o <<"-", ToString(index)>>

\* f"{path.stem}-{index}{path.suffix}"
rename_pattern(original_name, index) ==
    stem(original_name) \o <<"-", ToString(index)>> \o suffix(original_name)

\* the names and indexes get_rename_pattern is called with
OriginalNames == { <<"photo", ".", "jpg">>, <<"a", ".", "tar", ".", "gz">>,
                   <<"README">>, <<".", "hidden">> }
Indexes == {-1, 0, 3, 12}

get_rename_pattern(original_name, index) ==
    /\ UNCHANGED <<cache_vars, loader, st_mtime, ghost_vars, window_vars, thread_vars>>
    /\ util' = [NoUtil EXCEPT !.op = "get_rename_pattern",
                              !.original_name = original_name,
                              !.index = index,
                              !.new_name = rename_pattern(original_name, index)]
    /\ UNCHANGED manager_vars

ImagesCall ==
    \E flavour \in {"posix", "windows"}, is_dir \in BOOLEAN,
       entries \in SUBSET FolderEntries :
       /\ ~is_dir => entries = {}
       /\ get_images_from_folder(flavour, is_dir, entries)

RenameCall ==
    \E original_name \in OriginalNames, index \in Indexes :
       get_rename_pattern(original_name, index)

\* up to UtilCalls calls of the manager, then one call of a utility method
NextUtil ==
    \/ util.op = "none" /\ calls < UtilCalls /\ MoveCall
    \/ util.op = "none" /\ calls < UtilCalls /\ DeleteCall
    \/ util.op = "none" /\ calls < UtilCalls /\ UndoCall
    \/ util.op = "none" /\ ImagesCall
    \/ util.op = "none" /\ RenameCall

SpecUtil == Init /\ [][NextUtil]_vars

\* ---- ThumbnailCache: the public calls ------------------------------------
CacheCalls == 4

\* image_path.stat().st_mtime: every file has the first modification time
\* until another program rewrites it
stat_mtime(F, image_path) ==
    IF F[image_path] \in DOMAIN st_mtime THEN st_mtime[F[image_path]]
    ELSE FirstMtime

\* (variant) the key is made of the path and the size only
_get_cache_key_without_mtime(F, image_path, size) ==
    [path |-> image_path, size |-> size, mtime |-> FirstMtime]

\* md5 of "{image_path}_{width}x{height}_{st_mtime}", taken as free of
\* collisions
_get_cache_key(F, image_path, size) ==
    [path |-> image_path, size |-> size, mtime |-> stat_mtime(F, image_path)]

\* f with key mapped to v
set(f, key, v) == [k \in DOMAIN f \cup {key} |-> IF k = key THEN v ELSE f[k]]

logged(key) ==
    IF key \in DOMAIN access_log THEN access_log[key]
    ELSE [get |-> 0, put |-> 0]

\* ThumbnailCache(): a new instance on the same cache_dir (the program is
\* started again); readable = FALSE when metadata.json cannot be parsed
ThumbnailCache_init(readable) ==
    /\ now' = now + 1
    /\ metadata' = IF readable THEN metadata_file ELSE DefaultMetadata
    /\ cache_last' = [NoCacheCall EXCEPT !.op = "__init__", !.ok = readable]
    /\ UNCHANGED <<cache_files, metadata_file, access_log>>

\* get(image_path, size).  pixmap_null: QPixmap could not decode the cache
\* file; atime_updated: reading the cache file advanced its st_atime (the
\* filesystem decides: noatime and relatime mounts, NTFS settings).
get(image_path, size, pixmap_null, atime_updated) ==
    LET this == [NoCacheCall EXCEPT !.op = "get", !.image_path = image_path]
    IN /\ now' = now + 1
       /\ UNCHANGED metadata_file
       /\ IF ~exists(fs, image_path)
          THEN /\ cache_last' = this
               /\ UNCHANGED <<cache_files, metadata, access_log>>
          ELSE LET cache_key == _get_cache_key(fs, image_path, size)
                   that == [this EXCEPT !.cache_key = cache_key]
               IN IF cache_key \notin DOMAIN cache_files
                  THEN /\ cache_last' = that
                       /\ UNCHANGED <<cache_files, metadata, access_log>>
                  ELSE LET st_atime == IF atime_updated THEN now'
                                       ELSE cache_files[cache_key].atime
                       IN /\ cache_files' =
                                [cache_files EXCEPT ![cache_key].atime = st_atime]
                          /\ IF pixmap_null
                             THEN /\ cache_last' = that
                                  /\ UNCHANGED <<metadata, access_log>>
                             ELSE IF cache_key \notin DOMAIN metadata.files
                             THEN \* KeyError
                                  /\ cache_last' = [that EXCEPT !.raised = TRUE]
                                  /\ UNCHANGED <<metadata, access_log>>
                             ELSE /\ metadata' = [metadata EXCEPT
                                        !.files[cache_key].last_access = st_atime]
                                  /\ access_log' = set(access_log, cache_key,
                                        [logged(cache_key) EXCEPT !.get = now'])
                                  /\ cache_last' = [that EXCEPT !.ok = TRUE,
                                                        !.result = cache_key]

\* put(image_path, size, pixmap).  pixmap_null: the pixmap passed is null;
\* save_ok: pixmap.save wrote the PNG; atime_updated: overwriting a cache
\* file that exists advanced its st_atime (a new file always has a new one).
put(image_path, size, pixmap_null, save_ok, atime_updated) ==
    LET this == [NoCacheCall EXCEPT !.op = "put", !.image_path = image_path]
    IN /\ now' = now + 1
       /\ IF ~exists(fs, image_path) \/ pixmap_null
          THEN /\ cache_last' = this
               /\ UNCHANGED <<cache_files, metadata, metadata_file, access_log>>
          ELSE LET cache_key == _get_cache_key(fs, image_path, size)
                   e == ensure_while(metadata, cache_files, <<>>)
                   that == [this EXCEPT !.cache_key = cache_key,
                                        !.evicted = e.evicted]
                   st_atime == IF cache_key \in DOMAIN e.cache_files
                                  /\ ~atime_updated
                               THEN e.cache_files[cache_key].atime
                               ELSE now'
                   file_size == st_size(cache_key)
               IN IF save_ok
                  THEN /\ cache_files' = set(e.cache_files, cache_key,
                              [size |-> file_size, atime |-> st_atime])
                       /\ metadata' =
                              [files |-> set(e.metadata.files, cache_key,
                                   [size |-> file_size, last_access |-> st_atime]),
                               total_size |-> e.metadata.total_size + file_size]
                       /\ metadata_file' = metadata'
                       /\ access_log' = set(access_log, cache_key,
                              [logged(cache_key) EXCEPT !.put = now'])
                       /\ cache_last' = [that EXCEPT !.ok = TRUE]
                  ELSE /\ cache_files' = e.cache_files
                       /\ metadata' = e.metadata
                       /\ metadata_file' = e.metadata
                       /\ cache_last' = that
                       /\ UNCHANGED access_log

\* clear()
clear ==
    /\ now' = now + 1
    /\ cache_files' = NoFiles
    /\ metadata' = DefaultMetadata
    /\ metadata_file' = DefaultMetadata
    /\ cache_last' = [NoCacheCall EXCEPT !.op = "clear", !.ok = TRUE]
    /\ UNCHANGED access_log

\* another program rewrites the image at image_path: the file gets the
\* modification time mtime (a later one, or an earlier one when an older
\* version is put back with its time stamp)
file_modified(image_path, mtime) ==
    /\ exists(fs, image_path)
    /\ mtime # stat_mtime(fs, image_path)
    /\ st_mtime' = set(st_mtime, fs[image_path], mtime)
    /\ now' = now + 1
    /\ UNCHANGED <<cache_files, metadata, metadata_file, cache_last,
                   access_log>>

\* the images the list shows: the paths that held a file at the start
ImagePaths == DOMAIN fs0

InitCall ==
    /\ \E readable \in BOOLEAN : ThumbnailCache_init(readable)
    /\ UNCHANGED <<manager_vars, ghost_vars, window_vars, thread_vars, st_mtime, util, loader>>

GetCall ==
    /\ \E image_path \in ImagePaths, pixmap_null \in BOOLEAN,
          atime_updated \in BOOLEAN :
          get(image_path, thumbnail_size, pixmap_null, atime_updated)
    /\ UNCHANGED <<manager_vars, ghost_vars, window_vars, thread_vars, st_mtime, util, loader>>

PutCall ==
    /\ \E image_path \in ImagePaths, pixmap_null \in BOOLEAN,
          save_ok \in BOOLEAN, atime_updated \in BOOLEAN :
          put(image_path, thumbnail_size, pixmap_null, save_ok, atime_updated)
    /\ UNCHANGED <<manager_vars, ghost_vars, window_vars, thread_vars, st_mtime, util, loader>>

ClearCall ==
    /\ clear
    /\ UNCHANGED <<manager_vars, ghost_vars, window_vars, thread_vars, st_mtime, util, loader>>

ModifyCall ==
    /\ \E image_path \in ImagePaths, mtime \in Mtimes :
          file_modified(image_path, mtime)
    /\ UNCHANGED <<manager_vars, ghost_vars, window_vars, thread_vars, util, loader>>

NextCache ==
    \/ now < CacheCalls /\ InitCall
    \/ now < CacheCalls /\ GetCall
    \/ now < CacheCalls /\ PutCall
    \/ now < CacheCalls /\ ClearCall
    \/ now < CacheCalls /\ ModifyCall

SpecCache == Init /\ [][NextCache]_vars

\* ---- ThumbnailLoader: a background thread beside the foreground calls ----
LoaderCalls == 1
LoaderRuns == 1

\* (variant) loading the image consumes the file
QPixmap_load_consuming(F, image_path, decodable) ==
    [null |-> ~exists(F, image_path) \/ ~decodable,
     fs |-> [p \in DOMAIN F \ {image_path} |-> F[p]]]

\* QPixmap(str(image_path)): the pixmap is null when there is no such file
\* or it cannot be decoded; the files are only read
QPixmap_load(F, image_path, decodable) ==
    [null |-> ~exists(F, image_path) \/ ~decodable, fs |-> F]

\* ThumbnailLoader(image_path, size, cache).start()
loader_start(image_path) ==
    /\ loader.pc \in {"idle", "done"}
    /\ loader.runs < LoaderRuns
    /\ loader' = [NoLoader EXCEPT !.pc = "get", !.image_path = image_path,
                                  !.runs = loader.runs + 1,
                                  !.calls_at_start = calls]
    /\ UNCHANGED <<manager_vars, ghost_vars, window_vars, thread_vars, st_mtime, util, cache_vars>>

\* generate_thumbnail: cached = self.get(image_path, size); a hit is
\* returned, an exception of get ends run() in its except branch
loader_get ==
    /\ loader.pc = "get"
    /\ \E pixmap_null \in BOOLEAN, atime_updated \in BOOLEAN :
          get(loader.image_path, thumbnail_size, pixmap_null, atime_updated)
    /\ loader' = IF cache_last'.raised THEN [loader EXCEPT !.pc = "done"]
                 ELSE IF cache_last'.ok
                 THEN [loader EXCEPT !.pc = "emit",
                                     !.pixmap = cache_last'.result]
                 ELSE [loader EXCEPT !.pc = "load"]
    /\ UNCHANGED <<manager_vars, ghost_vars, window_vars, thread_vars, st_mtime, util>>

\* generate_thumbnail: pixmap = QPixmap(str(image_path)), scaled to size
loader_load ==
    /\ loader.pc = "load"
    /\ \E decodable \in BOOLEAN :
          LET r == QPixmap_load(fs, loader.image_path, decodable)
          IN /\ fs' = r.fs
             /\ loader' = IF r.null THEN [loader EXCEPT !.pc = "done"]
                          ELSE [loader EXCEPT !.pc = "put",
                                   !.pixmap = _get_cache_key(fs,
                                       loader.image_path, thumbnail_size)]
    /\ UNCHANGED <<dirs, trash, history, last, calls, made, undos,
                   all_true, only_moves, faulted, fs0>>
    /\ UNCHANGED <<util, cache_vars, st_mtime, ghost_vars, window_vars, thread_vars>>

\* generate_thumbnail: self.put(image_path, size, thumbnail); the thumbnail
\* is returned whatever put returns
loader_put ==
    /\ loader.pc = "put"
    /\ \E save_ok \in BOOLEAN, atime_updated \in BOOLEAN :
          put(loader.image_path, thumbnail_size, FALSE, save_ok, atime_updated)
    /\ loader' = [loader EXCEPT !.pc = "emit"]
    /\ UNCHANGED <<manager_vars, ghost_vars, window_vars, thread_vars, st_mtime, util>>

\* run: self.thumbnail_loaded.emit(self.image_path, pixmap)
loader_emit ==
    /\ loader.pc = "emit"
    /\ loader' = [loader EXCEPT !.pc = "done", !.emitted = TRUE]
    /\ UNCHANGED <<manager_vars, ghost_vars, window_vars, thread_vars, st_mtime, util, cache_vars>>

LoaderStart == \E image_path \in ImagePaths : loader_start(image_path)

NextLoader ==
    \/ calls < LoaderCalls /\ MoveCall
    \/ calls < LoaderCalls /\ DeleteCall
    \/ calls < LoaderCalls /\ UndoCall
    \/ LoaderStart
    \/ loader_get
    \/ loader_load
    \/ loader_put
    \/ loader_emit

SpecLoader == Init /\ [][NextLoader]_vars

\* ---- moves into one folder, deletions and undos, with the moved files ----
ReuseCalls == 6

\* the user sorts an image into folder b, keeping its name
ReuseMoveCall ==
    /\ \E source \in CallPaths : move_file(source, "b", <<>>, "none")
    /\ moved_file' = IF last'.ok THEN set(moved_file, made', fs[last'.source])
                     ELSE moved_file
    /\ UNCHANGED <<util, cache_vars, loader, st_mtime, reference,
                 window_vars, thread_vars>>

\* the user sends an image of folder b to the trash
ReuseDeleteCall ==
    /\ \E file_path \in {p \in DOMAIN fs : p.dir = "b"} :
          delete_file(file_path, FALSE)
    /\ UNCHANGED other_vars

NextReuse ==
    \/ calls < ReuseCalls /\ ReuseMoveCall
    \/ calls < ReuseCalls /\ ReuseDeleteCall
    \/ calls < ReuseCalls /\ UndoCall

SpecReuse == Init /\ [][NextReuse]_vars

\* ---- the manager beside a reference manager without a history bound ------
\* The reference manager is the same FileOperationManager with
\* max_history = infinity: it has its own files, receives the same calls
\* with the same arguments and the same filesystem faults, and never trims.
RefCalls == 7

\* move_file of the reference manager
reference_move_file(R, source, destination_dir, pattern, fault) ==
    LET candidate == move_candidate(source, destination_dir, pattern)
        destination == move_destination(R.fs, destination_dir, candidate)
        operation == MoveOperation(source, destination, R.made + 1)
    IN IF move_source_missing(R.fs, source) THEN R
       ELSE IF destination_dir \notin R.dirs /\ fault = "mkdir" THEN R
       ELSE IF fault = "move"
       THEN [R EXCEPT !.dirs = R.dirs \cup {destination_dir}]
       ELSE [R EXCEPT !.dirs = R.dirs \cup {destination_dir},
                      !.fs = shutil_move(R.fs, source, destination),
                      !.history = add_to_history_untrimmed(R.history, operation),
                      !.made = R.made + 1]

\* delete_file of the reference manager
reference_delete_file(R, file_path, fault) ==
    IF ~exists(R.fs, file_path) \/ fault THEN R
    ELSE [R EXCEPT !.fs = send2trash(R.fs, file_path),
                   !.trash = R.trash \cup {R.fs[file_path]},
                   !.history = add_to_history_untrimmed(R.history,
                                   DeleteOperation(file_path, R.made + 1)),
                   !.made = R.made + 1]

\* undo_last_operation of the reference manager; bounded_empty: the bounded
\* manager's history is empty at this call
reference_undo_last_operation(R, fault, bounded_empty) ==
    IF R.history = <<>> THEN [R EXCEPT !.popped = NoOperation]
    ELSE LET last_operation == history_pop_item(R.history)
             r == FileOperation_undo(last_operation, R.fs,
                      fault /\ last_operation.operation_type = MOVE)
         IN [R EXCEPT !.fs = r.fs,
                      !.history = history_pop_rest(R.history),
                      !.popped = last_operation,
                      !.ahead = R.ahead \/ bounded_empty]

\* the calls of this comparison: files are moved into folder "b", files of
\* folder "c" are deleted, and undo may meet a filesystem error
RefSources == {Join("a", ImgName)} \cup {p \in DOMAIN fs : p.dir = "b"}

RefMoveCall ==
    /\ \E source \in RefSources :
          /\ move_file(source, "b", <<>>, "none")
          /\ reference' = reference_move_file(reference, source, "b", <<>>,
                                              "none")
    /\ UNCHANGED <<util, cache_vars, loader, st_mtime, moved_file,
                 window_vars, thread_vars>>

RefDeleteCall ==
    /\ \E file_path \in {p \in DOMAIN fs : p.dir = "c"} :
          /\ delete_file(file_path, FALSE)
          /\ reference' = reference_delete_file(reference, file_path, FALSE)
    /\ UNCHANGED <<util, cache_vars, loader, st_mtime, moved_file,
                 window_vars, thread_vars>>

RefUndoCall ==
    /\ \E fault \in BOOLEAN :
          /\ undo_last_operation(fault)
          /\ reference' = reference_undo_last_operation(reference, fault,
                                                        history = <<>>)
    /\ UNCHANGED <<util, cache_vars, loader, st_mtime, moved_file,
                 window_vars, thread_vars>>

NextRef ==
    \/ calls < RefCalls /\ RefMoveCall
    \/ calls < RefCalls /\ RefDeleteCall
    \/ calls < RefCalls /\ RefUndoCall

SpecRef == Init /\ [][NextRef]_vars

\* ---- MainWindow: the sort keys and undo ----------------------------------
\* The window owns one FileOperationManager and keeps its own undo_stack.
\* The selected image is an input: the keep key is pressed on any file on
\* disk (the user may open any folder), the delete keys on one of folder "a". auto_rename is switched off in the settings dialog, so
\* rename_pattern stays None; the 'rename_folder' entries of
\* rename_keep_folder never reach the manager and are left out.
WindowCalls == 6

keep_folder == "b"
delete_folder == "c"

Entry(action, source, destination) ==
    [action |-> action, source |-> source, destination |-> destination]

\* (variant) a 'trash' entry is undone through the manager like a move
trash_is_special_never(operation) == FALSE

\* if action == "trash": the entry is pushed back and nothing else happens
trash_is_special(operation) == operation.action = "trash"

\* MainWindow._move_current_image(destination_folder, action), with the
\* selected image source_path
_move_current_image(source_path, destination_folder, action, fault) ==
    /\ move_file(source_path, destination_folder, <<>>, fault)
    /\ undo_stack' =
          IF last'.ok
          THEN Append(undo_stack, Entry(action, source_path, last'.result))
          ELSE undo_stack
    /\ window_last' = [NoWindowCall EXCEPT !.op = "_move_current_image",
                                           !.n = window_last.n + 1]

\* MainWindow.move_to_trash, with the selected image source_path
move_to_trash(source_path, fault) ==
    /\ delete_file(source_path, fault)
    /\ undo_stack' =
          IF last'.ok
          THEN Append(undo_stack, Entry("trash", source_path, NoPath))
          ELSE undo_stack
    /\ window_last' = [NoWindowCall EXCEPT !.op = "move_to_trash",
                                           !.n = window_last.n + 1]

\* MainWindow.undo_last_action
undo_last_action(fault) ==
    LET this == [NoWindowCall EXCEPT !.op = "undo_last_action",
                                     !.n = window_last.n + 1]
    IN
    IF undo_stack = <<>>
    THEN /\ ~fault
         /\ window_last' = this
         /\ UNCHANGED <<manager_vars, undo_stack>>
    ELSE LET operation == undo_stack[Len(undo_stack)]
             popped == SubSeq(undo_stack, 1, Len(undo_stack) - 1)
         IN IF trash_is_special(operation)
            THEN /\ ~fault
                 /\ window_last' = [this EXCEPT !.operation = operation]
                 /\ UNCHANGED <<manager_vars, undo_stack>>
            ELSE /\ undo_last_operation(fault)
                 /\ undo_stack' = IF last'.ok THEN popped ELSE undo_stack
                 /\ window_last' = [this EXCEPT !.operation = operation,
                                                !.called = TRUE]

WindowFrame ==
    UNCHANGED <<util, cache_vars, loader, st_mtime, ghost_vars, thread_vars>>

KeepKey ==
    /\ \E source_path \in DOMAIN fs, fault \in {"none", "move"} :
          _move_current_image(source_path, keep_folder, "keep", fault)
    /\ WindowFrame

DeleteKey ==
    /\ \E source_path \in {p \in DOMAIN fs : p.dir = "a"} :
          _move_current_image(source_path, delete_folder, "delete", "none")
    /\ WindowFrame

TrashKey ==
    /\ \E source_path \in {p \in DOMAIN fs : p.dir = "a"} :
          move_to_trash(source_path, FALSE)
    /\ WindowFrame

UndoKey ==
    /\ \E fault \in BOOLEAN : undo_last_action(fault)
    /\ WindowFrame

NextWindow ==
    \/ window_last.n < WindowCalls /\ KeepKey
    \/ window_last.n < WindowCalls /\ DeleteKey
    \/ window_last.n < WindowCalls /\ TrashKey
    \/ window_last.n < WindowCalls /\ UndoKey

SpecWindow == Init /\ [][NextWindow]_vars

\* ---- two ThumbnailLoader threads on the one ThumbnailCache ----------------
\* load_thumbnail_async starts one ThumbnailLoader per image; every loader
\* runs generate_thumbnail on the cache of the image list, and the code
\* takes no lock. A step is one statement that reads or writes the shared
\* metadata or the cache directory; an augmented assignment (+=, -=) is a
\* read and a later store. The puts made before the threads start fill the
\* cache (FirstPuts of them).
FirstPuts == 2

\* thread t continues as the record next
goto(t, next) == threads' = [threads EXCEPT ![t] = next]

thread_at(t, pc) == threads[t].pc = pc

\* what a thread leaves alone in every step
ThreadFrame ==
    UNCHANGED <<manager_vars, util, loader, st_mtime, ghost_vars,
                window_vars, now, cache_last, access_log>>

\* an exception leaves generate_thumbnail (or is caught in it) and run ends
raise(t) == goto(t, [threads[t] EXCEPT !.pc = "done", !.raised = TRUE])

\* loader.start(): run() begins with the image of the loader; the list has
\* one item, and so one loader, per image
thread_start(t, image_path) ==
    /\ thread_at(t, "idle")
    /\ \A o \in Threads \ {t} : threads[o].image_path # image_path
    /\ goto(t, [threads[t] EXCEPT !.pc = "get", !.image_path = image_path,
                   !.cache_key = _get_cache_key(fs, image_path,
                                                thumbnail_size)])
    /\ UNCHANGED <<cache_files, metadata, metadata_file, expected_total>>

\* get: cache_path.exists() and QPixmap(cache_path); on a miss
\* generate_thumbnail loads the image and enters put
thread_get(t) ==
    /\ thread_at(t, "get")
    /\ IF threads[t].cache_key \in DOMAIN cache_files
       THEN goto(t, [threads[t] EXCEPT !.pc = "get_touch"])
       ELSE goto(t, [threads[t] EXCEPT !.pc = "ensure_test"])
    /\ UNCHANGED <<cache_files, metadata, metadata_file, expected_total>>

\* get: self.metadata["files"][cache_key]["last_access"] = st_atime
thread_get_touch(t) ==
    LET cache_key == threads[t].cache_key
    IN /\ thread_at(t, "get_touch")
       /\ IF cache_key \notin DOMAIN metadata.files
             \/ cache_key \notin DOMAIN cache_files
          THEN /\ raise(t)
               /\ UNCHANGED metadata
          ELSE /\ metadata' = [metadata EXCEPT
                     !.files[cache_key].last_access =
                         cache_files[cache_key].atime]
               /\ goto(t, [threads[t] EXCEPT !.pc = "done", !.ok = TRUE])
       /\ UNCHANGED <<cache_files, metadata_file, expected_total>>

\* _ensure_cache_size: while total_size > max_size_bytes / if not files
thread_ensure_test(t) ==
    /\ thread_at(t, "ensure_test")
    /\ IF metadata.total_size > max_size_bytes /\ DOMAIN metadata.files # {}
       THEN goto(t, [threads[t] EXCEPT !.pc = "ensure_min"])
       ELSE goto(t, [threads[t] EXCEPT !.pc = "ensure_save"])
    /\ UNCHANGED <<cache_files, metadata, metadata_file, expected_total>>

\* _ensure_cache_size: oldest_key = min(...); ValueError on no key
thread_ensure_min(t) ==
    /\ thread_at(t, "ensure_min")
    /\ IF DOMAIN metadata.files = {}
       THEN raise(t)
       ELSE goto(t, [threads[t] EXCEPT !.pc = "ensure_pop",
                        !.oldest_key = oldest_key(metadata.files)])
    /\ UNCHANGED <<cache_files, metadata, metadata_file, expected_total>>

\* _ensure_cache_size: file_info = files.pop(oldest_key); KeyError when the
\* other thread has popped the key
thread_ensure_pop(t) ==
    LET key == threads[t].oldest_key
    IN /\ thread_at(t, "ensure_pop")
       /\ IF key \notin DOMAIN metadata.files
          THEN /\ raise(t)
               /\ UNCHANGED metadata
          ELSE /\ metadata' = [metadata EXCEPT !.files = pop(metadata.files, key)]
               /\ goto(t, [threads[t] EXCEPT !.pc = "ensure_unlink",
                              !.file_info = metadata.files[key]])
       /\ UNCHANGED <<cache_files, metadata_file, expected_total>>

\* _ensure_cache_size: if cache_path.exists(): cache_path.unlink()
thread_ensure_unlink(t) ==
    LET key == threads[t].oldest_key
    IN /\ thread_at(t, "ensure_unlink")
       /\ IF key \in DOMAIN cache_files
          THEN /\ cache_files' = pop(cache_files, key)
               /\ goto(t, [threads[t] EXCEPT !.pc = "ensure_read"])
          ELSE /\ goto(t, [threads[t] EXCEPT !.pc = "ensure_test"])
               /\ UNCHANGED cache_files
       /\ UNCHANGED <<metadata, metadata_file, expected_total>>

\* _ensure_cache_size: total_size -= size, the read
thread_ensure_read(t) ==
    /\ thread_at(t, "ensure_read")
    /\ goto(t, [threads[t] EXCEPT !.pc = "ensure_store",
                   !.total_size = metadata.total_size])
    /\ UNCHANGED <<cache_files, metadata, metadata_file, expected_total>>

\* _ensure_cache_size: total_size -= size, the store
thread_ensure_store(t) ==
    /\ thread_at(t, "ensure_store")
    /\ metadata' = [metadata EXCEPT
           !.total_size = threads[t].total_size - threads[t].file_info.size]
    /\ expected_total' = expected_total - threads[t].file_info.size
    /\ goto(t, [threads[t] EXCEPT !.pc = "ensure_test"])
    /\ UNCHANGED <<cache_files, metadata_file>>

\* _ensure_cache_size: self._save_metadata()
thread_ensure_save(t) ==
    /\ thread_at(t, "ensure_save")
    /\ metadata_file' = metadata
    /\ goto(t, [threads[t] EXCEPT !.pc = "put_save"])
    /\ UNCHANGED <<cache_files, metadata, expected_total>>

\* put: pixmap.save(cache_path, "PNG")
thread_put_save(t) ==
    LET cache_key == threads[t].cache_key
    IN /\ thread_at(t, "put_save")
       /\ cache_files' = set(cache_files, cache_key,
              [size |-> st_size(cache_key), atime |-> now + 1])
       /\ goto(t, [threads[t] EXCEPT !.pc = "put_entry"])
       /\ UNCHANGED <<metadata, metadata_file, expected_total>>

\* put: file_size = cache_path.stat().st_size; files[cache_key] = {...};
\* FileNotFoundError when the other thread has unlinked the file
thread_put_entry(t) ==
    LET cache_key == threads[t].cache_key
    IN /\ thread_at(t, "put_entry")
       /\ IF cache_key \notin DOMAIN cache_files
          THEN /\ raise(t)
               /\ UNCHANGED metadata
          ELSE /\ metadata' = [metadata EXCEPT !.files =
                     set(metadata.files, cache_key,
                         [size |-> cache_files[cache_key].size,
                          last_access |-> cache_files[cache_key].atime])]
               /\ goto(t, [threads[t] EXCEPT !.pc = "put_read",
                              !.file_info = [size |-> cache_files[cache_key].size,
                                             last_access |-> 0]])
       /\ UNCHANGED <<cache_files, metadata_file, expected_total>>

\* put: total_size += file_size, the read
thread_put_read(t) ==
    /\ thread_at(t, "put_read")
    /\ goto(t, [threads[t] EXCEPT !.pc = "put_store",
                   !.total_size = metadata.total_size])
    /\ UNCHANGED <<cache_files, metadata, metadata_file, expected_total>>

\* put: total_size += file_size, the store
thread_put_store(t) ==
    /\ thread_at(t, "put_store")
    /\ metadata' = [metadata EXCEPT
           !.total_size = threads[t].total_size + threads[t].file_info.size]
    /\ expected_total' = expected_total + threads[t].file_info.size
    /\ goto(t, [threads[t] EXCEPT !.pc = "put_metadata"])
    /\ UNCHANGED <<cache_files, metadata_file>>

\* put: self._save_metadata(); return True
thread_put_metadata(t) ==
    /\ thread_at(t, "put_metadata")
    /\ metadata_file' = metadata
    /\ goto(t, [threads[t] EXCEPT !.pc = "done", !.ok = TRUE])
    /\ UNCHANGED <<cache_files, metadata, expected_total>>

\* a put made before any loader starts
FirstPut ==
    /\ \A t \in Threads : thread_at(t, "idle")
    /\ now < FirstPuts
    /\ \E image_path \in ImagePaths :
          put(image_path, thumbnail_size, FALSE, TRUE, TRUE)
    /\ expected_total' = metadata'.total_size
    /\ UNCHANGED <<manager_vars, util, loader, st_mtime, ghost_vars,
                   window_vars, threads>>

ThreadStart ==
    /\ \E t \in Threads, image_path \in ImagePaths :
          thread_start(t, image_path)
    /\ ThreadFrame

NextThreads ==
    \/ FirstPut
    \/ ThreadStart
    \/ \E t \in Threads : thread_get(t) /\ ThreadFrame
    \/ \E t \in Threads : thread_get_touch(t) /\ ThreadFrame
    \/ \E t \in Threads : thread_ensure_test(t) /\ ThreadFrame
    \/ \E t \in Threads : thread_ensure_min(t) /\ ThreadFrame
    \/ \E t \in Threads : thread_ensure_pop(t) /\ ThreadFrame
    \/ \E t \in Threads : thread_ensure_unlink(t) /\ ThreadFrame
    \/ \E t \in Threads : thread_ensure_read(t) /\ ThreadFrame
    \/ \E t \in Threads : thread_ensure_store(t) /\ ThreadFrame
    \/ \E t \in Threads : thread_ensure_save(t) /\ ThreadFrame
    \/ \E t \in Threads : thread_put_save(t) /\ ThreadFrame
    \/ \E t \in Threads : thread_put_entry(t) /\ ThreadFrame
    \/ \E t \in Threads : thread_put_read(t) /\ ThreadFrame
    \/ \E t \in Threads : thread_put_store(t) /\ ThreadFrame
    \/ \E t \in Threads : thread_put_metadata(t) /\ ThreadFrame

SpecThreads == Init /\ [][NextThreads]_vars

\* ==== properties ==========================================================
Ids(h) == {h[i].id : i \in 1..Len(h)}
ThisCall(op) == calls' = calls + 1 /\ last'.op = op
UndoPopped == last.op = "undo_last_operation" /\ last.last_operation # NoOperation

\* C1 (as amended).  After N <= max_history successful operations on a new
\* manager, N calls of undo_last_operation pop the N records in strict
\* reverse order (the j-th call pops the record of operation N - j + 1), and
\* the (N+1)-th call returns False because the history is empty; when each
\* of the N calls returned True, every file is back at the path it had
\* before the operations.
C1_UndoInReverseOrder ==
    (made <= max_history /\ last.op = "undo_last_operation") =>
        /\ undos <= made =>
              /\ last.last_operation.id = made - undos + 1
              /\ Ids(history) = 1..(made - undos)
        /\ undos > made =>
              /\ ~last.ok
              /\ last.last_operation = NoOperation
              /\ history = <<>>
        /\ (undos = made /\ all_true) => fs = fs0

\* C1 witness: max_history moves were made, as many undos put every file
\* back, and one more undo has just reported that nothing is left.
C1_Witness ==
    /\ made = max_history /\ max_history > 1 /\ only_moves
    /\ undos = made + 1
    /\ last.op = "undo_last_operation" /\ ~last.ok
    /\ history = <<>>
    /\ fs = fs0

\* C1 as stated: once the N undo calls are made (no filesystem error having
\* occurred) the N operations are all reversed, i.e. each undo succeeded and
\* the files are where they were.
C1_AsStated ==
    (made <= max_history /\ made > 0 /\ undos = made /\ ~faulted) =>
        (all_true /\ fs = fs0)

\* C3.  After max_history + k (k > 0) successful move_file calls and no
\* undo, the history holds exactly max_history records, those of the
\* max_history most recent moves in order; the undo calls that follow pop
\* only those, and the call after max_history undos finds nothing to undo,
\* so the oldest k moves are never reversed.
C3_OldestUnrecoverable ==
    (only_moves /\ made > max_history) =>
        /\ \A i \in 1..Len(history) :
              /\ history[i].operation_type = MOVE
              /\ history[i].id > made - max_history
        /\ undos = 0 =>
              /\ Len(history) = max_history
              /\ \A i \in 1..max_history :
                    history[i].id = made - max_history + i
              /\ last.ok =>
                    /\ history[max_history].source_path = last.source
                    /\ history[max_history].destination_path = last.result
        /\ (undos > 0 /\ undos <= max_history) =>
              /\ last.last_operation.id = made - undos + 1
              /\ Len(history) = max_history - undos
        /\ undos > max_history =>
              /\ ~last.ok
              /\ last.last_operation = NoOperation
              /\ history = <<>>

\* C3 witness: one move more than the history holds, then max_history
\* undos, then an undo that reports nothing to undo while the file of the
\* oldest move is still away from where it was.
C3_Witness ==
    /\ only_moves /\ made = max_history + 1
    /\ undos = max_history + 1
    /\ last.op = "undo_last_operation" /\ ~last.ok
    /\ all_true = FALSE /\ ~faulted
    /\ fs # fs0

\* C2.  move_file never returns a path that existed when it was called:
\* whenever it returns a path, no file was at that path at call time, the
\* moved file is there afterwards, and every other file is where it was
\* with its own content.
C2_ResultWasFree ==
    [][(ThisCall("move_file") /\ last'.ok) =>
          /\ ~exists(fs, last'.result)
          /\ exists(fs', last'.result)
          /\ fs'[last'.result] = fs[last'.source]
          /\ \A p \in DOMAIN fs \ {last'.source} :
                exists(fs', p) /\ fs'[p] = fs[p]]_vars

\* C2 witness: a move whose candidate destination was occupied has returned
\* another path, and the file that occupied the candidate is still there.
C2_Witness ==
    /\ last.op = "move_file" /\ last.ok
    /\ last.result # last.candidate
    /\ exists(fs, last.candidate)
    /\ exists(fs, last.result)

\* C4.  In every reachable state len(history) <= max_history; a successful
\* move_file or delete_file appends its record at the tail and, when the
\* history was full, drops the head entry and no other; a failed call leaves
\* the history as it was.
C4_HistoryBounded ==
    /\ [](Len(history) <= max_history)
    /\ [][(ThisCall("move_file") \/ ThisCall("delete_file")) =>
             IF last'.ok
             THEN LET kept == IF Len(history) < max_history
                              THEN history ELSE Tail(history)
                  IN /\ Len(history') = Len(kept) + 1
                     /\ SubSeq(history', 1, Len(kept)) = kept
                     /\ history'[Len(history')].id = made'
                     /\ history'[Len(history')].source_path = last'.source
             ELSE history' = history]_vars

\* C4 witness: an operation succeeded on a full history; the newest record
\* is at the tail and the record that was at the head is gone.
C4_Witness ==
    /\ last.op \in {"move_file", "delete_file"} /\ last.ok
    /\ made > max_history
    /\ Len(history) = max_history
    /\ history[Len(history)].id = made
    /\ made - max_history \notin Ids(history)

\* C5.  undo_last_operation removes the tail entry whether or not the undo
\* succeeds: the history is one shorter and no longer holds the popped
\* record, also when the undo returned False; the undo call after a failed
\* one pops the record of the operation performed just before.
C5_FailedUndoIsDropped ==
    [][(ThisCall("undo_last_operation") /\ history # <<>>) =>
          /\ last'.last_operation = history[Len(history)]
          /\ Len(history') = Len(history) - 1
          /\ last'.last_operation.id \notin Ids(history')
          /\ (UndoPopped /\ ~last.ok) =>
                last'.last_operation.id = last.last_operation.id - 1]_vars

\* C5 witness: the first undo failed (a filesystem error on a Move, or a
\* Delete) and the second undo has popped, and undone, the operation
\* performed before it.
C5_Witness ==
    /\ undos = 2 /\ ~all_true
    /\ last.op = "undo_last_operation" /\ last.ok
    /\ last.last_operation.id = made - 1
    /\ Len(history) = made - 2

\* C6.  Undoing a Delete always returns False and changes no file: the files
\* on disk, their paths, the directories and the trash are the same before
\* and after.
C6_DeleteUndoFails ==
    [][(ThisCall("undo_last_operation")
        /\ last'.last_operation.operation_type = DELETE) =>
          /\ ~last'.ok
          /\ fs' = fs /\ dirs' = dirs /\ trash' = trash]_vars

\* C6 witness: an undo has popped a Delete record.
C6_Witness ==
    /\ UndoPopped
    /\ last.last_operation.operation_type = DELETE
    /\ ~last.ok
    /\ trash # {}

\* C7.  Undoing a Move whose original source path is occupied again does not
\* overwrite the file there: a successful undo leaves that file at the
\* source path with its own content and puts the moved file at a different
\* path, free until then, in the same parent directory; and the undo does
\* succeed whenever the moved file is still at its destination and the
\* filesystem raises no error.
C7_RestoreBesideOccupant ==
    [][(ThisCall("undo_last_operation")
        /\ last'.last_operation.operation_type = MOVE
        /\ exists(fs, last'.last_operation.source_path)) =>
          LET source_path == last'.last_operation.source_path
              destination_path == last'.last_operation.destination_path
              restore_path == last'.restore_path
          IN /\ exists(fs', source_path)
             /\ fs'[source_path] = fs[source_path]
             /\ (exists(fs, destination_path) /\ ~last'.fault) => last'.ok
             /\ last'.ok =>
                   /\ restore_path # source_path
                   /\ restore_path.dir = source_path.dir
                   /\ ~exists(fs, restore_path)
                   /\ exists(fs', restore_path)
                   /\ fs'[restore_path] = fs[destination_path]
                   /\ Cardinality(DOMAIN fs') = Cardinality(DOMAIN fs)]_vars

\* C7 witness: an undo has succeeded and restored the file beside the file
\* that occupies the recorded source path.
C7_Witness ==
    /\ UndoPopped /\ last.ok
    /\ last.restore_path # last.last_operation.source_path
    /\ exists(fs, last.last_operation.source_path)
    /\ exists(fs, last.restore_path)
    /\ fs[last.restore_path] # fs[last.last_operation.source_path]

\* C8.  Collision-safe naming in move_file: the candidate is
\* destination_dir / rename_pattern or destination_dir / source.name; when
\* it is free the move returns it unchanged, otherwise it returns
\* destination_dir / "{stem}-{N}{suffix}" of the candidate with N the
\* smallest integer >= 1 whose path is free, so the result does not exist
\* at call time and keeps the candidate's suffix.
C8_SmallestFreeCounter ==
    [][(ThisCall("move_file") /\ last'.ok) =>
          LET d == last'.destination_dir
              candidate == last'.candidate
              Numbered(n) == Join(d, MoveName(stem(candidate.name), n,
                                              suffix(candidate.name)))
          IN /\ candidate.dir = d
             /\ candidate.name \in {last'.source.name, PicName}
             /\ ~exists(fs, last'.result)
             /\ suffix(last'.result.name) = suffix(candidate.name)
             /\ IF ~exists(fs, candidate)
                THEN last'.result = candidate
                ELSE \E N \in 1..(Cardinality(DOMAIN fs) + 1) :
                        /\ last'.result = Numbered(N)
                        /\ \A n \in 1..(N - 1) : exists(fs, Numbered(n))]_vars

\* C8 witness: a move found its candidate and the name numbered 1 occupied
\* and returned the name numbered 2.
C8_Witness ==
    /\ last.op = "move_file" /\ last.ok
    /\ exists(fs, last.candidate)
    /\ exists(fs, Join(last.destination_dir,
                       MoveName(stem(last.candidate.name), 1,
                                suffix(last.candidate.name))))
    /\ last.result = Join(last.destination_dir,
                          MoveName(stem(last.candidate.name), 2,
                                   suffix(last.candidate.name)))

\* C9.  Consecutive moves of distinct files that are all called img.png into
\* one folder that already holds an img.png get the counters 1, 2, ...: the
\* k-th of them returns img-k.png (no other call in between).
ImgNumbered(d, k) == Join(d, <<"img", "-", ToString(k), ".", "png">>)

C9_CountersIncrease ==
    \A d \in Dirs :
        (/\ undos = 0 /\ calls = made /\ made = Len(history)
         /\ exists(fs0, Join(d, ImgName))
         /\ \A i \in 1..Len(history) :
               /\ history[i].operation_type = MOVE
               /\ history[i].source_path.name = ImgName
               /\ history[i].source_path.dir # d
               /\ history[i].destination_path.dir = d
               /\ history[i].destination_path.name[1] = "img")
        => \A i \in 1..Len(history) :
               history[i].destination_path = ImgNumbered(d, i)

\* C9 witness: two files called img.png were moved, one after the other,
\* into a folder holding img.png; it now holds img.png, img-1.png, img-2.png.
C9_Witness ==
    \E d \in Dirs :
        /\ calls = 2 /\ made = 2 /\ Len(history) = 2
        /\ history[1].source_path.name = ImgName
        /\ history[2].source_path.name = ImgName
        /\ history[1].destination_path = ImgNumbered(d, 1)
        /\ last.result = ImgNumbered(d, 2)
        /\ fs[ImgNumbered(d, 1)] # fs[ImgNumbered(d, 2)]
        /\ exists(fs, Join(d, ImgName))

\* C10.  move_file with a source that does not exist returns None at once
\* and has no side effect: no file moves, no directory is created (the
\* destination directory included), the history is unchanged and no
\* exception leaves the call.
C10_MissingSourceNoEffect ==
    [][(ThisCall("move_file") /\ ~exists(fs, last'.source)) =>
          /\ ~last'.ok /\ last'.result = NoPath
          /\ ~last'.raised
          /\ fs' = fs /\ dirs' = dirs /\ trash' = trash
          /\ history' = history /\ made' = made]_vars

\* C10 witness: move_file was called with a missing source and a
\* destination directory that does not exist, and returned None.
C10_Witness ==
    /\ last.op = "move_file" /\ ~last.ok /\ ~last.raised
    /\ ~exists(fs, last.source)
    /\ last.destination_dir \notin dirs
    /\ history # <<>>

\* C11 (as the claim states it).  On any filesystem error during move_file,
\* the failure to create destination_dir included, move_file returns None,
\* leaves the history unchanged and raises nothing to the caller.
C11_AnyErrorReturnsNone ==
    [][(ThisCall("move_file") /\ last'.fault) =>
          /\ ~last'.raised
          /\ ~last'.ok /\ last'.result = NoPath
          /\ history' = history]_vars

\* C12.  delete_file returns True exactly when the file was sent to the
\* trash; it then appends one Delete record for that path (dropping the head
\* of a full history); when the path does not exist or send2trash fails it
\* returns False and neither the history nor any file changes.
C12_DeleteRecordsOnSuccess ==
    [][ThisCall("delete_file") =>
          /\ ~last'.raised
          /\ last'.ok <=> (exists(fs, last'.source) /\ ~last'.fault)
          /\ last'.ok <=> (trash' # trash)
          /\ IF last'.ok
             THEN LET kept == IF Len(history) < max_history
                              THEN history ELSE Tail(history)
                  IN /\ history' = Append(kept,
                            [operation_type |-> DELETE,
                             source_path |-> last'.source,
                             destination_path |-> NoPath, id |-> made'])
                     /\ made' = made + 1
                     /\ ~exists(fs', last'.source)
                     /\ trash' = trash \cup {fs[last'.source]}
                     /\ \A p \in DOMAIN fs \ {last'.source} :
                           exists(fs', p) /\ fs'[p] = fs[p]
             ELSE history' = history /\ fs' = fs /\ trash' = trash]_vars

\* C12 witness: a deletion has succeeded and its Delete record is the tail
\* of the history; an earlier delete_file call had failed on a send2trash
\* error.
C12_Witness ==
    /\ last.op = "delete_file" /\ last.ok
    /\ faulted /\ calls > made
    /\ history[Len(history)].operation_type = DELETE
    /\ history[Len(history)].source_path = last.source
    /\ ~exists(fs, last.source)

\* C13.  FileOperation.undo of a Move never raises: when a filesystem call
\* fails, or the file is no longer at the recorded destination, the undo
\* returns False and no file has moved.
C13_MoveUndoNeverRaises ==
    [][(ThisCall("undo_last_operation")
        /\ last'.last_operation.operation_type = MOVE) =>
          /\ ~last'.raised
          /\ (last'.fault \/ ~exists(fs, last'.last_operation.destination_path))
                => ~last'.ok
          /\ ~last'.ok => (fs' = fs /\ dirs' = dirs /\ trash' = trash)]_vars

\* C13 witness: the undo of a Move met a filesystem error and returned
\* False; the moved file is still at the recorded destination.
C13_Witness ==
    /\ UndoPopped /\ last.last_operation.operation_type = MOVE
    /\ last.fault /\ ~last.ok /\ ~last.raised
    /\ exists(fs, last.last_operation.destination_path)

\* C16.  Every FileOperation record held in the history has a destination
\* path if and only if its kind is Move.
C16_DestinationIffMove ==
    \A i \in 1..Len(history) :
        (history[i].destination_path # NoPath)
            <=> (history[i].operation_type = MOVE)

\* C16 witness: the history holds a Move record and a Delete record.
C16_Witness ==
    /\ Len(history) = 2
    /\ {history[1].operation_type, history[2].operation_type} = {MOVE, DELETE}

\* C14 (as the claim states it).  get_images_from_folder on a folder holding
\* a.png, B.JPG, c.txt and d.webp returns [a.png, B.JPG, d.webp] in that
\* order; in general it returns exactly the regular files of the folder
\* whose suffix is one of the eight supported spellings, each once, ordered
\* by filename (upper and lower case alike, as the example orders them).
C14_ImagesInNameOrder ==
    util.op = "get_images_from_folder" =>
        LET names == {e.name : e \in util.entries}
            n == Len(util.images)
        IN /\ (util.entries = { [name |-> x, is_file |-> TRUE] :
                                  x \in {a_png, B_JPG, c_txt, d_webp} })
                 => util.images = <<a_png, B_JPG, d_webp>>
           /\ {util.images[i] : i \in 1..n}
                 = { e.name : e \in { x \in util.entries :
                         x.is_file /\ suffix(x.name) \in supported_extensions } }
           /\ \A i, j \in 1..n : i < j =>
                 PathLess("windows", util.images[i], util.images[j])

\* C15.  get_rename_pattern(original_name, index) inserts "-" and the index
\* just before the suffix of original_name (after the whole name when it has
\* no suffix), so ("photo.jpg", 3) gives "photo-3.jpg"; the call changes
\* neither the filesystem nor the history.
C15_RenamePattern ==
    [][util'.op = "get_rename_pattern" /\ util.op = "none" =>
          LET name == util'.original_name
              new == util'.new_name
              dot == RFindDot(name)
              cut == IF 1 < dot /\ dot < Len(name) THEN dot - 1 ELSE Len(name)
          IN /\ Len(new) = Len(name) + 2
             /\ SubSeq(new, 1, cut) = SubSeq(name, 1, cut)
             /\ new[cut + 1] = "-"
             /\ new[cut + 2] = ToString(util'.index)
             /\ SubSeq(new, cut + 3, Len(new)) = SubSeq(name, cut + 1, Len(name))
             /\ (name = <<"photo", ".", "jpg">> /\ util'.index = 3)
                   => new = <<"photo", "-", "3", ".", "jpg">>
             /\ history' = history /\ fs' = fs /\ dirs' = dirs
             /\ trash' = trash]_vars

\* C15 witness: get_rename_pattern("photo.jpg", 3) has returned
\* "photo-3.jpg" in a manager whose history holds a record.
C15_Witness ==
    /\ util.op = "get_rename_pattern"
    /\ util.original_name = <<"photo", ".", "jpg">> /\ util.index = 3
    /\ util.new_name = <<"photo", "-", "3", ".", "jpg">>
    /\ Len(history) = 1

\* C17.  A successful undo of a Move whose source path is occupied restores
\* the file to source.parent / "{stem}_restored_{N}{suffix}" with N the
\* smallest integer >= 1 whose path is free: the restore lands on a path
\* that held no file, so the file at the source path and the files of
\* earlier restores stay where they are, with their content.
C17_SmallestFreeRestore ==
    [][(ThisCall("undo_last_operation") /\ last'.ok
        /\ exists(fs, last'.last_operation.source_path)) =>
          LET source_path == last'.last_operation.source_path
              destination_path == last'.last_operation.destination_path
              Restored(n) == Join(source_path.dir,
                                  RestoreName(stem(source_path.name), n,
                                              suffix(source_path.name)))
          IN /\ \E N \in 1..(Cardinality(DOMAIN fs) + 1) :
                   /\ last'.restore_path = Restored(N)
                   /\ \A n \in 1..(N - 1) : exists(fs, Restored(n))
             /\ ~exists(fs, last'.restore_path)
             /\ fs'[last'.restore_path] = fs[destination_path]
             /\ \A p \in DOMAIN fs \ {destination_path} :
                   exists(fs', p) /\ fs'[p] = fs[p]]_vars

\* C17 witness: two undos in a row found the source path occupied; the
\* first restored to img_restored_1.png and the second, finding that path
\* taken by the first, to img_restored_2.png.
C17_Witness ==
    /\ UndoPopped /\ last.ok /\ undos = 2 /\ all_true
    /\ last.last_operation.source_path = Join("a", ImgName)
    /\ last.restore_path = Join("a", RestoreName(<<"img">>, 2, <<".", "png">>))
    /\ exists(fs, Join("a", ImgName))
    /\ exists(fs, Join("a", RestoreName(<<"img">>, 1, <<".", "png">>)))

\* a step that is the call op on the cache (the clock also ticks when
\* another program rewrites an image)
ThisCacheCall(op) ==
    now' = now + 1 /\ st_mtime' = st_mtime /\ cache_last'.op = op

\* C19 (as the claim states it).  Eviction at the start of put removes the
\* least recently accessed entries first: the evicted entries leave in
\* increasing order of their recorded last_access, none of them newer than
\* an entry that stays, until the recorded total is within the budget or no
\* entry remains; and an entry that get has returned more recently than
\* another entry was last read or written is never evicted before that other.
C19_EvictsLeastRecentlyAccessed ==
    [][(ThisCacheCall("put") /\ cache_last'.cache_key # NoKey) =>
          LET evicted == cache_last'.evicted
              n == Len(evicted)
              files == metadata.files
              Gone(i) == {evicted[j] : j \in 1..i}
              added == IF cache_last'.ok
                       THEN st_size(cache_last'.cache_key) ELSE 0
              Used(k) == IF logged(k).get > logged(k).put
                         THEN logged(k).get ELSE logged(k).put
          IN /\ metadata.total_size <= max_size_bytes => n = 0
             /\ \A i \in 1..n :
                   /\ evicted[i] \in DOMAIN files \ Gone(i - 1)
                   /\ \A k \in DOMAIN files \ Gone(i) :
                         files[evicted[i]].last_access <= files[k].last_access
             /\ \/ metadata'.total_size - added <= max_size_bytes
                \/ DOMAIN files = Gone(n)
             /\ \A i \in 1..n : \A k \in DOMAIN files \ Gone(i) :
                   ~(logged(evicted[i]).get > Used(k))]_vars

\* C20 (as the claim states it).  ThumbnailCache.get returns a cached image
\* or absence and never raises, whatever the cache directory and the
\* metadata hold.
C20_GetNeverRaises ==
    cache_last.op = "get" =>
        /\ ~cache_last.raised
        /\ cache_last.result \in {NoKey, cache_last.cache_key}

\* C18.  A step of the ThumbnailLoader thread, at any point between the
\* calls of the foreground, leaves the undo history and every image file as
\* they are and is no call of move_file, delete_file or undo_last_operation:
\* the thread only reads the image and reads and writes the cache.
C18_LoaderLeavesFilesAndHistory ==
    [][loader' # loader =>
          /\ history' = history
          /\ fs' = fs /\ dirs' = dirs /\ trash' = trash
          /\ calls' = calls /\ made' = made /\ last' = last]_vars

\* C18 witness: the thread has loaded an image and put its thumbnail into
\* the cache, a foreground call that changed the files and the history ran
\* between its start and its end, and the thread has emitted its result.
C18_Witness ==
    /\ loader.pc = "done" /\ loader.emitted
    /\ cache_last.op = "put" /\ cache_last.ok
    /\ calls > loader.calls_at_start
    /\ Len(history) > 0 /\ fs # fs0

\* C21.  get for (path, size) never returns a thumbnail that put stored at a
\* modification time other than the one the source file has now: what it
\* returns was put for that path, that size and the present modification
\* time, and while no put has stored a thumbnail for the present
\* modification time get returns absence.
C21_StaleThumbnailNotReturned ==
    [][(ThisCacheCall("get") /\ exists(fs, cache_last'.image_path)) =>
          LET current == [path |-> cache_last'.image_path,
                          size |-> thumbnail_size,
                          mtime |-> stat_mtime(fs, cache_last'.image_path)]
          IN /\ cache_last'.result \in {NoKey, current}
             /\ cache_last'.ok <=> (cache_last'.result = current)
             /\ logged(current).put = 0 =>
                   (cache_last'.result = NoKey /\ ~cache_last'.raised)]_vars

\* C21 witness: a thumbnail was put for a/img.png at the first modification
\* time and is still in the cache, the file has been rewritten since, and
\* get has returned absence for it.
C21_Witness ==
    LET image_path == Join("a", ImgName)
        stored == [path |-> image_path, size |-> thumbnail_size,
                   mtime |-> FirstMtime]
    IN /\ cache_last.op = "get" /\ cache_last.image_path = image_path
       /\ cache_last.result = NoKey /\ ~cache_last.raised
       /\ stored \in DOMAIN cache_files /\ stored \in DOMAIN metadata.files
       /\ stat_mtime(fs, image_path) # FirstMtime

\* C22.  The manager neither loses nor overwrites a file: in every reachable
\* state each file that existed at the start is at exactly one path, with
\* its content, unless delete_file has sent it to the trash, and then it is
\* at no path; a path holds one file.
C22_NoFileLost ==
    \A f \in {fs0[p] : p \in DOMAIN fs0} :
        LET at == {p \in DOMAIN fs : fs[p] = f}
        IN IF f \in trash THEN at = {} ELSE Cardinality(at) = 1

\* C22 witness: only move_file and undo_last_operation have been called, a
\* move succeeded and its undo failed on a filesystem error, and the files
\* are not where they were at the start.
C22_Witness ==
    /\ only_moves /\ made > 0 /\ faulted /\ trash = {}
    /\ UndoPopped /\ ~last.ok /\ last.fault
    /\ fs # fs0

\* C23.  Round trip: when undo_last_operation follows a successful move_file
\* at once and meets no filesystem error, it returns True, the file is back
\* at its source path, the destination path is free again and every other
\* file is where it was; and when the history was not full before the move,
\* the history is what it was before the move.
C23_MoveThenUndo ==
    [][(ThisCall("undo_last_operation") /\ last.op = "move_file" /\ last.ok
        /\ ~last'.fault) =>
          /\ last'.ok
          /\ last'.last_operation.source_path = last.source
          /\ last'.last_operation.destination_path = last.result
          /\ last'.restore_path = last.source
          /\ exists(fs', last.source)
          /\ fs'[last.source] = fs[last.result]
          /\ last.result # last.source => ~exists(fs', last.result)
          /\ \A p \in DOMAIN fs \ {last.result} :
                exists(fs', p) /\ fs'[p] = fs[p]
          /\ Len(last.history_before) < max_history =>
                history' = last.history_before]_vars

\* C23 witness: a move into a history that was not empty and not full has
\* just been undone, and the history is the one from before the move.
C23_Witness ==
    /\ UndoPopped /\ last.ok /\ calls = 3 /\ made = 2
    /\ Len(history) = 1
    /\ last.history_before = Append(history, last.last_operation)
    /\ exists(fs, last.last_operation.source_path)
    /\ ~exists(fs, last.last_operation.destination_path)

\* C24 (as the claim states it).  Whenever undo_last_operation returns True
\* for a Move record, the file at the restore path afterwards is the file
\* that the move_file call of that record moved.
C24_UndoRestoresTheMovedFile ==
    [][(ThisCall("undo_last_operation") /\ last'.ok
        /\ last'.last_operation.operation_type = MOVE
        /\ last'.last_operation.id \in DOMAIN moved_file) =>
          /\ exists(fs', last'.restore_path)
          /\ fs'[last'.restore_path] = moved_file[last'.last_operation.id]]_vars


\* ---- C25 -------------------------------------------------------------------
\* a record without the model's serial number: type, source, destination
record(op) == [operation_type |-> op.operation_type,
               source_path |-> op.source_path,
               destination_path |-> op.destination_path]

records(h) == [i \in 1..Len(h) |-> record(h[i])]

IsSuffix(h, H) ==
    /\ Len(h) <= Len(H)
    /\ h = SubSeq(H, Len(H) - Len(h) + 1, Len(H))

BoundedRefinesReference ==
    /\ IsSuffix(records(history), records(reference.history))
    /\ (last.op = "undo_last_operation" /\ last.last_operation # NoOperation)
          => /\ reference.popped # NoOperation
             /\ record(reference.popped) = record(last.last_operation)

\* C25 as stated: the bounded history is always a suffix of the history of
\* the reference manager without a bound, and every undo that finds the
\* bounded history non-empty pops the record the reference manager pops.
C25_AsStated == BoundedRefinesReference

\* C25: as long as no undo has found the bounded history empty while the
\* reference manager still had a record to undo, the bounded history is a
\* suffix of the reference history, every undo with a non-empty bounded
\* history pops the record the reference manager pops, and both managers
\* see the same files.
C25_BoundedHistoryRefinesUnbounded ==
    ~reference.ahead =>
        /\ BoundedRefinesReference
        /\ reference.fs = fs

\* more operations than max_history were recorded, the bounded history has
\* lost the oldest, and an undo popped a record from both
C25_Witness ==
    /\ ~reference.ahead
    /\ last.op = "undo_last_operation"
    /\ last.last_operation # NoOperation
    /\ made > max_history
    /\ Len(reference.history) > Len(history)


\* ---- C26, C27 --------------------------------------------------------------
\* C26: whenever undo_last_action pops a 'keep' or 'delete' entry and calls
\* undo_last_operation, the manager pops a record with the source and the
\* destination of that entry.
C26_UndoStackAligned ==
    (window_last.op = "undo_last_action" /\ window_last.called)
        => /\ last.last_operation # NoOperation
           /\ last.last_operation.source_path = window_last.operation.source
           /\ last.last_operation.destination_path =
                  window_last.operation.destination

UndoOnTrash ==
    /\ undo_stack # <<>>
    /\ undo_stack[Len(undo_stack)].action = "trash"
    /\ window_last'.n = window_last.n + 1
    /\ window_last'.op = "undo_last_action"

TailIsMatchingDelete ==
    /\ history # <<>>
    /\ history[Len(history)].operation_type = DELETE
    /\ history[Len(history)].source_path = undo_stack[Len(undo_stack)].source

RECURSIVE sum_of_sizes(_)
sum_of_sizes(files) ==
    IF DOMAIN files = {} THEN 0
    ELSE LET key == CHOOSE k \in DOMAIN files : TRUE
         IN files[key].size + sum_of_sizes(pop(files, key))

\* C28: metadata["total_size"] equals the sum of the "size" fields of the
\* entries of metadata["files"], after any sequence of put, get, eviction
\* and clear.
C28_TotalSizeIsSumOfSizes ==
    metadata.total_size = sum_of_sizes(metadata.files)


\* ---- C29 -------------------------------------------------------------------
\* C29: when both ThumbnailLoader threads have finished, no update of
\* metadata["total_size"] is lost (it is the value at the start plus the
\* sizes the threads added minus the sizes they subtracted) and every entry
\* of metadata["files"] has its cache file.
C29_ThreadsKeepMetadata ==
    (\A t \in Threads : thread_at(t, "done"))
        => /\ metadata.total_size = expected_total
           /\ DOMAIN metadata.files \subseteq DOMAIN cache_files

====
